---- MODULE Spec2Model ----
(***************************************************************************)
(* Step-graph construction of the ice-shelf tasks of polaris:              *)
(*   - IceShelfTask.setup_ssh_adjustment_steps, the loop that builds or    *)
(*     reuses the ssh_forward_<i> / ssh_adjust_<i> steps of a task         *)
(*     (src/polaris/ocean/ice_shelf/__init__.py);                          *)
(*   - _get_shared_steps, the shared topography pipeline of the ISOMIP+    *)
(*     tasks (src/polaris/ocean/tasks/isomip_plus/__init__.py).            *)
(* Python objects live in a heap (objects); an object's identity is its    *)
(* index in the heap, so "the same object" is equality of indices and      *)
(* "constructed" is growth of the heap.  None is the index 0.              *)
(***************************************************************************)
EXTENDS Integers, Sequences, FiniteSets, TLC

VARIABLES
    objects,    \* the heap of Step objects, in order of construction
    steps,      \* component.steps: subdir -> index of the registered step
    tasks,      \* task name -> [name, subdir, sshdir, resolution, steps]
    log,        \* the calls made on the registry and the tasks, in order
    builds,     \* the mappings returned by _get_shared_steps, in order
    threads,    \* concurrent calls: task name -> position and local names
    guarded     \* the subdirs whose lookup-construct-register is serialized

vars == <<objects, steps, tasks, log, builds, threads, guarded>>

-----------------------------------------------------------------------------
(* Bounds of the model *)

\* the largest iteration count a configuration holds
MaxIterations == 2
\* the number of calls (setup, registration, pipeline build) in one run
MaxCalls == 2

-----------------------------------------------------------------------------
(* Values *)

None == 0

\* an optional string: <<>> is None, <<s>> is the string s
NoSymlink == <<>>

\* a Step object; the fields a constructor is not given stay None / ""
NewStep(cls, subdir, name) ==
    [cls |-> cls, subdir |-> subdir, name |-> name,
     mesh |-> None, init |-> None, forward |-> None, topo |-> None,
     experiment |-> "", resolution |-> 0, config |-> "", link |-> ""]

\* the tasks of the component: two share one sshdir, one has none of its own
TaskNames == {"a", "b", "c"}

\* IceShelfTask.__init__: sshdir defaults to subdir
IceShelfTask(resolution, name, subdir, sshdir) ==
    [name |-> name,
     subdir |-> subdir,
     sshdir |-> IF sshdir = <<>> THEN subdir ELSE sshdir[1],
     resolution |-> resolution,
     steps |-> <<>>]

\* the arguments the three tasks are constructed with
TaskArgs(t) ==
    CASE t = "a" -> IceShelfTask(4, "a", "ice/a", <<>>)
      [] t = "b" -> IceShelfTask(2, "b", "ice/b", <<"ice/ssh">>)
      [] t = "c" -> IceShelfTask(2, "c", "ice/c", <<"ice/ssh">>)

\* the configuration of task t and the name of its file; iterations is the
\* option 'iterations' of section 'ssh_adjustment', <<>> when it is missing
ConfigFilename == "ice_shelf.cfg"

ConfigOf(t, iterations) ==
    [filepath |-> TaskArgs(t).subdir \o "/" \o ConfigFilename,
     iterations |-> iterations]

\* the step that produced the initial condition of task t: object number
InitOf(t) == CASE t = "a" -> 1 [] t = "b" -> 2 [] t = "c" -> 3

InitStep(t) == NewStep("Init", TaskArgs(t).subdir \o "/init", "init")

-----------------------------------------------------------------------------
(* Task.add_step and the registry *)

\* subdir in component.steps
registered_never(reg, subdir) == FALSE

registered(reg, subdir) == subdir \in DOMAIN reg

\* Task.add_step(step, symlink): the step is appended to the task's ordered
\* collection under its symlink, and enters the registry under its subdir
\* unless a step is registered there already.
\* A local state st carries objects, steps and the task's step list tsteps.
add_step(st, id, symlink) ==
    [st EXCEPT
        !.tsteps = Append(@, [step |-> id, symlink |-> symlink]),
        !.steps = IF registered(@, st.objects[id].subdir)
                  THEN @
                  ELSE (st.objects[id].subdir :> id) @@ @]

-----------------------------------------------------------------------------
(* IceShelfTask.setup_ssh_adjustment_steps *)

forward_name(iteration) == "ssh_forward_" \o ToString(iteration)

adjust_name(iteration) == "ssh_adjust_" \o ToString(iteration)

\* subdir = f'{indir}/ssh_adjustment/{name}'
ssh_subdir_bare(indir, name) == "ssh_adjustment/" \o name

ssh_subdir(indir, name) == indir \o "/ssh_adjustment/" \o name

\* symlink = None if indir == self.subdir else f'ssh_adjustment/{name}'
ssh_symlink_always(indir, subdir, name) == <<"ssh_adjustment/" \o name>>

ssh_symlink(indir, subdir, name) ==
    IF indir = subdir THEN NoSymlink ELSE <<"ssh_adjustment/" \o name>>

\* range(num_iterations)
range_inclusive(n) == 0 .. n

range(n) == 0 .. (n - 1)

\* the init handed to the forward step of an iteration
forward_init_original(init, current_init) == init

forward_init(init, current_init) == current_init

\* shared_step = component.steps[subdir]: the registered step is taken as it
\* is; set_shared_config is not called on it (lines 80-81, 98-99)
reuse_rebound(st, id, config, config_filename) ==
    [st EXCEPT !.objects[id].config = config.filepath,
               !.objects[id].link = config_filename,
               !.shared_step = id]

reuse(st, id, config, config_filename) == [st EXCEPT !.shared_step = id]

\* the forward half of one iteration (lines 78-94)
forward_half(st, task, init, config, config_filename, iteration) ==
    LET name == forward_name(iteration)
        subdir == ssh_subdir(task.sshdir, name)
        symlink == ssh_symlink(task.sshdir, task.subdir, name)
    IN  IF registered(st.steps, subdir)
        THEN add_step(reuse(st, st.steps[subdir], config, config_filename),
                      st.steps[subdir], symlink)
        ELSE LET new == [NewStep("SshForward", subdir, name) EXCEPT
                            !.resolution = task.resolution,
                            !.mesh = init,
                            !.init = forward_init(init, st.current_init),
                            !.config = config.filepath,
                            !.link = config_filename]
                 id == Len(st.objects) + 1
             IN  add_step([st EXCEPT !.objects = Append(@, new),
                                     !.ssh_forward = id,
                                     !.shared_step = id],
                          id, symlink)

\* the adjust half of one iteration (lines 96-113); the name ssh_forward is
\* read before SshAdjustment is called, and is unbound when no forward step
\* was constructed by this call so far
adjust_half(st, task, init, config, config_filename, iteration) ==
    LET name == adjust_name(iteration)
        subdir == ssh_subdir(task.sshdir, name)
        symlink == ssh_symlink(task.sshdir, task.subdir, name)
        done(s) == [s EXCEPT !.current_init = s.shared_step]
    IN  IF registered(st.steps, subdir)
        THEN done(add_step(reuse(st, st.steps[subdir], config,
                                 config_filename),
                           st.steps[subdir], symlink))
        ELSE IF st.ssh_forward = None
        THEN [st EXCEPT !.raised = "UnboundLocalError"]
        ELSE LET new == [NewStep("SshAdjustment", subdir, name) EXCEPT
                            !.resolution = task.resolution,
                            !.init = init,
                            !.forward = st.ssh_forward,
                            !.config = config.filepath,
                            !.link = config_filename]
                 id == Len(st.objects) + 1
             IN  done(add_step([st EXCEPT !.objects = Append(@, new),
                                          !.shared_step = id],
                               id, symlink))

\* the body of the loop, for one iteration
iteration_body(st, task, init, config, config_filename, iteration) ==
    LET fwd == forward_half(st, task, init, config, config_filename, iteration)
    IN  adjust_half(fwd, task, init, config, config_filename, iteration)

\* for iteration in range(num_iterations), from iteration i on
RECURSIVE loop(_, _, _, _, _, _, _)
loop(st, task, init, config, config_filename, i, iterations) ==
    IF i \notin iterations \/ st.raised # ""
    THEN st
    ELSE loop(iteration_body(st, task, init, config, config_filename, i),
              task, init, config, config_filename, i + 1, iterations)

\* config.getint('ssh_adjustment', 'iterations'): the option as the
\* configuration holds it, <<>> when it holds none (getint then raises)
getint_fallback(config) ==
    IF config.iterations = <<>> THEN <<1>> ELSE config.iterations

getint(config) == config.iterations

\* config.getint('ssh_adjustment', 'iterations') finds the option
has_option(config) == getint(config) # <<>>

\* return shared_step
returned_forward(st) == st.ssh_forward

returned(st) == st.shared_step

\* the whole call: the local state at the return statement, or at the raise.
\* shared_step is unbound at "return shared_step" when the loop never ran.
setup_ssh_adjustment_steps(objs, reg, task, init, config, config_filename) ==
    LET st0 == [objects |-> objs, steps |-> reg, tsteps |-> task.steps,
                current_init |-> init, ssh_forward |-> None,
                shared_step |-> None, raised |-> ""]
    IN  IF ~has_option(config)
        THEN [st0 EXCEPT !.raised = "NoOptionError"]
        ELSE LET st == loop(st0, task, init, config, config_filename, 0,
                            range(getint(config)[1]))
             IN  IF st.raised = "" /\ st.shared_step = None
                 THEN [st EXCEPT !.raised = "UnboundLocalError"]
                 ELSE st

-----------------------------------------------------------------------------
(* _get_shared_steps: the shared topography pipeline *)

\* a dict is the sequence of its <<key, value>> items in insertion order
RECURSIVE dict_get(_, _)
dict_get(d, key) ==
    IF d = <<>> THEN None
    ELSE IF d[1][1] = key THEN d[1][2] ELSE dict_get(Tail(d), key)

dict_keys(d) == {d[n][1] : n \in 1 .. Len(d)}

\* d[key] = value: a present key keeps its place, a new key goes last
dict_set(d, key, value) ==
    IF key \in dict_keys(d)
    THEN [n \in 1 .. Len(d) |->
            IF d[n][1] = key THEN <<key, value>> ELSE d[n]]
    ELSE Append(d, <<key, value>>)

\* polaris.ocean.resolution.resolution_to_subdir, for whole kilometres
resolution_to_subdir(resolution) == ToString(resolution) \o "km"

\* the experiments of add_isomip_plus_tasks and of _get_shared_steps
Experiments ==
    <<"ocean0", "ocean1", "ocean2", "ocean3", "ocean4",
      "inception", "wetting", "drying">>

RemapExperiments == <<"ocean1", "ocean2", "ocean3", "ocean4">>

ScaleExperiments == <<"inception", "wetting", "drying">>

\* lines 64-75: PlanarMesh(...) or SphericalMesh(...)
base_mesh_step(mesh_type, resolution, subdir, config) ==
    IF mesh_type = "planar"
    THEN [NewStep("PlanarMesh", subdir, "") EXCEPT
            !.resolution = resolution, !.config = config]
    ELSE [NewStep("SphericalMesh", subdir, "") EXCEPT
            !.resolution = resolution, !.config = config]

\* the dict literal of lines 122-129
experiment_steps_mixed(base_mesh, topo_map_base, topo_remap_base, cull_mesh, topo_map_culled, topo_remap_culled) ==
    << <<"base_mesh", base_mesh>>,
       <<"topo/map_base", topo_map_base>>,
       <<"topo/remap_base", topo_remap_base>>,
       <<"topo/cull_mesh", cull_mesh>>,
       <<"topo/map_culled", topo_map_base>>,
       <<"topo/remap_culled", topo_remap_culled>>,
       <<"topo_final", topo_remap_culled>> >>

experiment_steps(base_mesh, topo_map_base, topo_remap_base, cull_mesh, topo_map_culled, topo_remap_culled) ==
    << <<"base_mesh", base_mesh>>,
       <<"topo/map_base", topo_map_base>>,
       <<"topo/remap_base", topo_remap_base>>,
       <<"topo/cull_mesh", cull_mesh>>,
       <<"topo/map_culled", topo_map_culled>>,
       <<"topo/remap_culled", topo_remap_culled>>,
       <<"topo_final", topo_remap_culled>> >>

\* lines 112-129, for the experiments of todo in turn.  b carries the heap
\* (objects), the dicts made so far (dicts), shared_steps (shared: experiment
\* -> index of its dict) and topo_remap_culled (remap: experiment -> step).
RECURSIVE remap_loop(_, _, _, _, _)
remap_loop(b, todo, resdir, config, ids) ==
    IF todo = <<>> THEN b
    ELSE LET experiment == Head(todo)
             subdir == resdir \o "/topo/remap_culled/" \o experiment
             new == [NewStep("TopoRemap", subdir, "topo_remap_culled") EXCEPT
                        !.config = config,
                        !.topo = ids.topo_map_culled,
                        !.experiment = experiment]
             id == Len(b.objects) + 1
             d == experiment_steps(ids.base_mesh, ids.topo_map_base,
                                   ids.topo_remap_base, ids.cull_mesh,
                                   ids.topo_map_culled, id)
         IN  remap_loop([b EXCEPT
                            !.objects = Append(@, new),
                            !.remap = (experiment :> id) @@ @,
                            !.dicts = Append(@, d),
                            !.shared = (experiment :> Len(b.dicts) + 1) @@ @],
                        Tail(todo), resdir, config, ids)

\* line 132: shared_steps['ocean0'] = shared_steps['ocean1']
same_topography_copied(b) ==
    [b EXCEPT !.dicts = Append(@, b.dicts[b.shared["ocean1"]]),
              !.shared = ("ocean0" :> Len(b.dicts) + 1) @@ @]

same_topography(b) ==
    [b EXCEPT !.shared = ("ocean0" :> b.shared["ocean1"]) @@ @]

\* line 135: shared_steps[experiment] = dict(shared_steps['ocean1'])
clone_steps_aliased(b, experiment) ==
    [b EXCEPT !.shared = (experiment :> b.shared["ocean1"]) @@ @]

clone_steps(b, experiment) ==
    [b EXCEPT !.dicts = Append(@, b.dicts[b.shared["ocean1"]]),
              !.shared = (experiment :> Len(b.dicts) + 1) @@ @]

\* lines 142-143: the scale step enters the experiment's dict
add_scale_only(b, experiment, topo_scale) ==
    [b EXCEPT !.dicts[b.shared[experiment]] =
                dict_set(@, "topo/scale", topo_scale)]

add_scale(b, experiment, topo_scale) ==
    [b EXCEPT !.dicts[b.shared[experiment]] =
                dict_set(dict_set(@, "topo/scale", topo_scale),
                         "topo_final", topo_scale)]

\* line 140: topo_remap=topo_remap_culled['ocean1']
scale_topo_remap_last(b) == b.remap["ocean4"]

scale_topo_remap(b) == b.remap["ocean1"]

\* lines 134-143, for the experiments of todo in turn
RECURSIVE scale_loop(_, _, _, _)
scale_loop(b, todo, resdir, config) ==
    IF todo = <<>> THEN b
    ELSE LET experiment == Head(todo)
             cloned == clone_steps(b, experiment)
             subdir == resdir \o "/topo/scale/" \o experiment
             new == [NewStep("TopoScale", subdir, "") EXCEPT
                        !.config = config,
                        !.topo = scale_topo_remap(b),
                        !.experiment = experiment]
             id == Len(b.objects) + 1
         IN  scale_loop(add_scale([cloned EXCEPT !.objects = Append(@, new)],
                                  experiment, id),
                        Tail(todo), resdir, config)

\* the whole function: the heap after it, and the mapping it returns
get_shared_steps(objs, mesh_type, resolution, mesh_name, resdir, config) ==
    LET n == Len(objs)
        base_mesh == base_mesh_step(mesh_type, resolution,
                                    resdir \o "/base_mesh", config)
        topo_map_base ==
            [NewStep("TopoMap", resdir \o "/topo/map_base", "topo_map_base")
                EXCEPT !.config = config, !.mesh = n + 1]
        topo_remap_base ==
            [NewStep("TopoRemap", resdir \o "/topo/remap_base",
                     "topo_remap_base")
                EXCEPT !.config = config, !.topo = n + 2,
                       !.experiment = "ocean1"]
        cull_mesh ==
            [NewStep("CullMesh", resdir \o "/topo/cull_mesh", "")
                EXCEPT !.config = config, !.mesh = n + 1, !.topo = n + 3]
        topo_map_culled ==
            [NewStep("TopoMap", resdir \o "/topo/map_culled",
                     "topo_map_culled")
                EXCEPT !.config = config, !.mesh = n + 4]
        ids == [base_mesh |-> n + 1, topo_map_base |-> n + 2,
                topo_remap_base |-> n + 3, cull_mesh |-> n + 4,
                topo_map_culled |-> n + 5]
        b0 == [objects |-> objs \o <<base_mesh, topo_map_base,
                                     topo_remap_base, cull_mesh,
                                     topo_map_culled>>,
               dicts |-> <<>>,
               shared |-> <<>>,
               remap |-> <<>>]
        b1 == remap_loop(b0, RemapExperiments, resdir, config, ids)
        b2 == same_topography(b1)
    IN  scale_loop(b2, ScaleExperiments, resdir, config)

-----------------------------------------------------------------------------
(* IsomipPlusTest.__init__ and the ISOMIP+ SshForward *)

\* Python binds the keyword arguments of a call to the parameters of the
\* function: TypeError unless every parameter without a default is given
\* and every keyword names a parameter
binds(required, optional, keywords) ==
    /\ required \subseteq keywords
    /\ keywords \subseteq (required \cup optional)

\* def __init__(self, component, resolution, name, subdir, sshdir=None)
IceShelfTaskRequired == {"component", "resolution", "name", "subdir"}

IceShelfTaskOptional == {"sshdir"}

\* super().__init__(component=, min_resolution=, name=, subdir=, sshdir=)
SuperInitKeywords ==
    {"component", "min_resolution", "name", "subdir", "sshdir"}

\* def setup_ssh_adjustment_steps(self, init, config, config_filename,
\*     package=None, yaml_filename='ssh_forward.yaml', yaml_replacements=None)
SetupRequired == {"init", "config", "config_filename"}

SetupOptional == {"package", "yaml_filename", "yaml_replacements"}

\* the keywords of the call of IsomipPlusTest.__init__, lines 134-141
SetupKeywords ==
    {"mesh_filename", "graph_filename", "init_filename", "config",
     "config_filename", "ForwardStep", "yaml_filename", "package"}

\* SshForward.compute_cell_count: int(45e3 / resolution**2)
compute_cell_count(resolution) == 45000 \div (resolution * resolution)

\* os.path.join of non-empty relative parts
path_join(a, b) == a \o "/" \o b

\* lines 101-104: the items of shared_steps but 'topo_final', in order
RECURSIVE add_shared_steps(_, _)
add_shared_steps(st, items) ==
    IF items = <<>> THEN st
    ELSE IF Head(items)[1] = "topo_final"
    THEN add_shared_steps(st, Tail(items))
    ELSE add_shared_steps(add_step(st, Head(items)[2], <<Head(items)[1]>>),
                          Tail(items))

\* the constructor: the local state where it returns or raises.  task is the
\* task under construction; it joins the component only on return.
isomip_plus_test(objs, reg, resdir, resolution, experiment, vertical_coordinate, shared_steps, iterations) ==
    LET name == experiment
        subdir == path_join(path_join(resdir, vertical_coordinate), name)
        sshdir == path_join(subdir, "adjust_ssh")
        config_filename == "isomip_plus.cfg"
        config == [filepath |-> path_join(subdir, config_filename),
                   iterations |-> iterations]
        task == IceShelfTask(resolution, name, subdir, <<sshdir>>)
        st0 == [objects |-> objs, steps |-> reg, tsteps |-> <<>>,
                current_init |-> None, ssh_forward |-> None,
                shared_step |-> None, raised |-> ""]
    IN  IF ~binds(IceShelfTaskRequired, IceShelfTaskOptional,
                  SuperInitKeywords)
        THEN [task |-> task, st |-> [st0 EXCEPT !.raised = "TypeError"]]
        ELSE
        LET st1 == add_shared_steps(st0, shared_steps)
            culled_mesh == dict_get(shared_steps, "topo/cull_mesh")
            topo == dict_get(shared_steps, "topo_final")
            init == [NewStep("Init", path_join(subdir, "init"), "init")
                        EXCEPT !.mesh = culled_mesh, !.topo = topo,
                               !.experiment = experiment,
                               !.config = config.filepath,
                               !.link = config_filename]
            init_id == Len(st1.objects) + 1
            st2 == add_step([st1 EXCEPT !.objects = Append(@, init)],
                            init_id, NoSymlink)
            forcing == [NewStep("Forcing", path_join(subdir, "forcing"),
                                "forcing")
                           EXCEPT !.mesh = culled_mesh, !.topo = topo,
                                  !.resolution = resolution,
                                  !.experiment = experiment,
                                  !.config = config.filepath,
                                  !.link = config_filename]
            st3 == add_step([st2 EXCEPT !.objects = Append(@, forcing)],
                            Len(st2.objects) + 1, NoSymlink)
        IN  IF ~binds(SetupRequired, SetupOptional, SetupKeywords)
            THEN [task |-> [task EXCEPT !.steps = st3.tsteps],
                  st |-> [st3 EXCEPT !.raised = "TypeError"]]
            ELSE LET st4 == setup_ssh_adjustment_steps(
                                st3.objects, st3.steps,
                                [task EXCEPT !.steps = st3.tsteps],
                                init_id, config, config_filename)
                 IN  [task |-> [task EXCEPT !.steps = st4.tsteps],
                      st |-> st4]

-----------------------------------------------------------------------------
(* The state machine *)

\* the iteration counts a configuration may hold, and the missing option
Iterations == {<<>>} \cup {<<k>> : k \in 0 .. MaxIterations}

\* the mesh types and resolutions of add_isomip_plus_tasks
MeshTypes == {"planar", "spherical"}

Resolutions == {4, 2, 1}

\* the sshdirs of the tasks
SshDirs == {TaskArgs(t).sshdir : t \in TaskNames}

\* the subdirs the adjustment steps of sshdir indir may have
SshPaths(indir) ==
    {ssh_subdir(indir, forward_name(i)) : i \in 0 .. MaxIterations - 1}
    \cup {ssh_subdir(indir, adjust_name(i)) : i \in 0 .. MaxIterations - 1}

Budget == Len(log) + Len(builds) < MaxCalls

Init ==
    /\ objects = <<InitStep("a"), InitStep("b"), InitStep("c")>>
    /\ steps = [p \in {InitStep(t).subdir : t \in TaskNames} |->
                  InitOf(CHOOSE t \in TaskNames : InitStep(t).subdir = p)]
    /\ tasks = [t \in TaskNames |->
                  [TaskArgs(t) EXCEPT
                     !.steps = <<[step |-> InitOf(t), symlink |-> NoSymlink]>>]]
    /\ log = <<>>
    /\ builds = <<>>
    /\ threads = <<>>
    /\ guarded = {}

\* task t calls setup_ssh_adjustment_steps(init, config, config_filename)
SetupSshAdjustmentSteps(t, iterations) ==
    /\ Budget
    /\ LET st == setup_ssh_adjustment_steps(
                    objects, steps, tasks[t], InitOf(t),
                    ConfigOf(t, iterations), ConfigFilename)
       IN  /\ objects' = st.objects
           /\ steps' = st.steps
           /\ tasks' = [tasks EXCEPT ![t].steps = st.tsteps]
           /\ log' = Append(log,
                  [op |-> "setup", task |-> t, indir |-> tasks[t].sshdir,
                   iterations |-> iterations, init |-> InitOf(t),
                   before |-> Len(objects), after |-> Len(st.objects),
                   registry_before |-> DOMAIN steps,
                   result |-> IF st.raised = "" THEN returned(st) ELSE None,
                   raised |-> st.raised])
    /\ UNCHANGED <<builds, threads, guarded>>

\* another builder of the component registers a step of its own at the
\* subdir of an adjustment step, after finding none there
ComponentAddStep(indir, subdir) ==
    /\ Budget
    /\ subdir \in SshPaths(indir)
    /\ ~registered(steps, subdir)
    /\ objects' = Append(objects, NewStep("Step", subdir, ""))
    /\ steps' = (subdir :> Len(objects) + 1) @@ steps
    /\ log' = Append(log,
           [op |-> "add_step", task |-> "", indir |-> indir,
            iterations |-> <<>>, init |-> None,
            before |-> Len(objects), after |-> Len(objects) + 1,
            registry_before |-> DOMAIN steps,
            result |-> None, raised |-> ""])
    /\ UNCHANGED <<tasks, builds, threads, guarded>>

\* add_isomip_plus_tasks, lines 27-44: the shared steps of one resolution
GetSharedSteps(mesh_type, resolution) ==
    /\ Budget
    /\ LET mesh_name == resolution_to_subdir(resolution)
           resdir == mesh_type \o "/isomip_plus/" \o mesh_name
           filepath == resdir \o "/isomip_plus_topo.cfg"
           b == get_shared_steps(objects, mesh_type, resolution, mesh_name,
                                 resdir, filepath)
       IN  /\ objects' = b.objects
           /\ builds' = Append(builds,
                  [mesh_type |-> mesh_type, resolution |-> resolution,
                   resdir |-> resdir,
                   before |-> Len(objects), after |-> Len(b.objects),
                   dicts |-> b.dicts, shared |-> b.shared])
    /\ UNCHANGED <<steps, tasks, log, threads, guarded>>

\* the vertical coordinates of add_isomip_plus_tasks
VerticalCoordinates == {"z-star"}

\* add_isomip_plus_tasks, lines 49-57: a task is constructed on the shared
\* steps that build n returned for the experiment, and added to the
\* component when the constructor returns
IsomipPlusTest(n, experiment, vertical_coordinate, iterations) ==
    /\ Budget
    /\ n \in 1 .. Len(builds)
    /\ LET b == builds[n]
           r == isomip_plus_test(objects, steps, b.resdir, b.resolution,
                                 experiment, vertical_coordinate,
                                 b.dicts[b.shared[experiment]], iterations)
       IN  /\ objects' = r.st.objects
           /\ steps' = r.st.steps
           /\ tasks' = IF r.st.raised = ""
                       THEN (r.task.subdir :> r.task) @@ tasks
                       ELSE tasks
           /\ log' = Append(log,
                  [op |-> "IsomipPlusTest", task |-> r.task.subdir,
                   indir |-> r.task.sshdir,
                   iterations |-> <<>>, init |-> None,
                   before |-> Len(objects), after |-> Len(r.st.objects),
                   registry_before |-> DOMAIN steps,
                   result |-> None, raised |-> r.st.raised,
                   build |-> n, experiment |-> experiment])
    /\ UNCHANGED <<builds, threads, guarded>>

Next ==
    \/ \E t \in TaskNames, iterations \in Iterations :
          SetupSshAdjustmentSteps(t, iterations)
    \/ \E n \in 1 .. MaxCalls, vertical_coordinate \in VerticalCoordinates :
          \E experiment \in {Experiments[k] : k \in 1 .. Len(Experiments)} :
             \E iterations \in Iterations :
                IsomipPlusTest(n, experiment, vertical_coordinate, iterations)
    \/ \E indir \in SshDirs : \E subdir \in SshPaths(indir) :
          ComponentAddStep(indir, subdir)
    \/ \E mesh_type \in MeshTypes, resolution \in Resolutions :
          GetSharedSteps(mesh_type, resolution)

Spec == Init /\ [][Next]_vars

-----------------------------------------------------------------------------
(* Concurrent calls of setup_ssh_adjustment_steps by an external driver *)

\* the tasks that share one sshdir; each is constructed by a thread of its own
RaceTasks == {t \in TaskNames : TaskArgs(t).sshdir = "ice/ssh"}

\* the subdir that the half of the loop body at position pc looks up
half_subdir(task, pc, iteration) ==
    IF pc \in {"forward_lookup", "forward_act"}
    THEN ssh_subdir(task.sshdir, forward_name(iteration))
    ELSE ssh_subdir(task.sshdir, adjust_name(iteration))

\* a thread is between its lookup of subdir and the end of add_step for it
holds(th, task, subdir) ==
    /\ th.pc \in {"forward_act", "adjust_act"}
    /\ half_subdir(task, th.pc, th.iteration) = subdir

\* single-writer-per-path discipline: thread t may start the lookup of a
\* guarded subdir only when no other thread is between lookup and
\* registration of that subdir
may_enter_unguarded(ths, tsk, grd, t, subdir) == TRUE

may_enter(ths, tsk, grd, t, subdir) ==
    subdir \in grd =>
        \A u \in DOMAIN ths \ {t} : ~holds(ths[u], tsk[u], subdir)

\* the registry as the branch of line 80 or 98 saw it: the subdirs that were
\* registered when "subdir in component.steps" was evaluated
seen_registry(reg, seen) == [p \in seen \cap DOMAIN reg |-> reg[p]]

\* the position after the adjust half: the next iteration of the for loop,
\* or the return statement
after_adjust(th) ==
    IF th.iteration + 1 \in range(th.num_iterations)
    THEN [th EXCEPT !.pc = "forward_lookup", !.iteration = @ + 1]
    ELSE [th EXCEPT !.pc = "return"]

RaceInit ==
    /\ objects = <<InitStep("a"), InitStep("b"), InitStep("c")>>
    /\ steps = [p \in {InitStep(t).subdir : t \in TaskNames} |->
                  InitOf(CHOOSE t \in TaskNames : InitStep(t).subdir = p)]
    /\ tasks = [t \in TaskNames |->
                  [TaskArgs(t) EXCEPT
                     !.steps = <<[step |-> InitOf(t), symlink |-> NoSymlink]>>]]
    /\ log = <<>>
    /\ builds = <<>>
    /\ guarded \in SUBSET SshPaths("ice/ssh")
    /\ \E k \in 1 .. MaxIterations :
          threads = [t \in RaceTasks |->
                       [pc |-> "forward_lookup", iteration |-> 0,
                        num_iterations |-> k, seen |-> {},
                        current_init |-> InitOf(t), ssh_forward |-> None,
                        shared_step |-> None, raised |-> ""]]

\* "if subdir in component.steps" (lines 80, 98): thread t reads the registry
RaceLookup(t) ==
    /\ threads[t].pc \in {"forward_lookup", "adjust_lookup"}
    /\ may_enter(threads, tasks, guarded, t,
                 half_subdir(tasks[t], threads[t].pc, threads[t].iteration))
    /\ threads' = [threads EXCEPT
                     ![t].seen = DOMAIN steps,
                     ![t].pc = IF @ = "forward_lookup" THEN "forward_act"
                               ELSE "adjust_act"]
    /\ UNCHANGED <<objects, steps, tasks, log, builds, guarded>>

\* the branch taken on what the lookup saw, up to the end of add_step (lines
\* 81-94, 99-113): thread t reuses or constructs, and add_step registers the
\* step unless the subdir is registered by now
RaceAct(t) ==
    /\ threads[t].pc \in {"forward_act", "adjust_act"}
    /\ LET th == threads[t]
           st0 == [objects |-> objects,
                   steps |-> seen_registry(steps, th.seen),
                   tsteps |-> tasks[t].steps,
                   current_init |-> th.current_init,
                   ssh_forward |-> th.ssh_forward,
                   shared_step |-> th.shared_step, raised |-> ""]
           config == ConfigOf(t, <<th.num_iterations>>)
           st == IF th.pc = "forward_act"
                 THEN forward_half(st0, tasks[t], InitOf(t), config,
                                   ConfigFilename, th.iteration)
                 ELSE adjust_half(st0, tasks[t], InitOf(t), config,
                                  ConfigFilename, th.iteration)
           locals == [th EXCEPT !.current_init = st.current_init,
                                !.ssh_forward = st.ssh_forward,
                                !.shared_step = st.shared_step,
                                !.raised = st.raised]
       IN  /\ objects' = st.objects
           /\ steps' = steps @@ st.steps
           /\ tasks' = [tasks EXCEPT ![t].steps = st.tsteps]
           /\ threads' = [threads EXCEPT ![t] =
                 IF st.raised # "" THEN [locals EXCEPT !.pc = "raised"]
                 ELSE IF th.pc = "forward_act"
                 THEN [locals EXCEPT !.pc = "adjust_lookup"]
                 ELSE after_adjust(locals)]
    /\ UNCHANGED <<log, builds, guarded>>

RaceNext ==
    \/ \E t \in RaceTasks : RaceLookup(t)
    \/ \E t \in RaceTasks : RaceAct(t)

RaceSpec == RaceInit /\ [][RaceNext]_vars

-----------------------------------------------------------------------------
(* What the claims speak of *)

\* the calls of setup_ssh_adjustment_steps that read an iteration count
SetupCalls ==
    {n \in 1 .. Len(log) : log[n].op = "setup" /\ log[n].iterations # <<>>}

IterationCount(n) == log[n].iterations[1]

\* the objects constructed by call n of the log
Constructed(n) == (log[n].before + 1) .. log[n].after

\* the registry held none of the adjustment paths of the call's sshdir
FreshRegistry(n) ==
    \A p \in log[n].registry_before :
        \A i \in 0 .. MaxIterations :
            /\ p # log[n].indir \o "/ssh_adjustment/ssh_forward_" \o ToString(i)
            /\ p # log[n].indir \o "/ssh_adjustment/ssh_adjust_" \o ToString(i)

ForwardPath(indir, i) ==
    indir \o "/ssh_adjustment/ssh_forward_" \o ToString(i)

AdjustPath(indir, i) ==
    indir \o "/ssh_adjustment/ssh_adjust_" \o ToString(i)

\* the adjustment paths of the sshdirs of all tasks
AdjustmentPaths ==
    UNION {{ForwardPath(tasks[t].sshdir, i), AdjustPath(tasks[t].sshdir, i)} :
             t \in TaskNames, i \in 0 .. MaxIterations}

\* the positions of object id in the step collection of task t
PositionsIn(t, id) ==
    {k \in 1 .. Len(tasks[t].steps) : tasks[t].steps[k].step = id}

AllExperiments == {Experiments[k] : k \in 1 .. Len(Experiments)}

\* the step set a build returned for an experiment
StepsOf(b, experiment) == b.dicts[b.shared[experiment]]

SharedKeys ==
    {"base_mesh", "topo/map_base", "topo/remap_base", "topo/cull_mesh",
     "topo/map_culled"}

-----------------------------------------------------------------------------
(* The claims *)

\* C1: path uniqueness.  After any sequence of setup_ssh_adjustment_steps
\* calls by any tasks, at most one step object exists for each adjustment
\* path, it is the registered one, and every task that holds a step for
\* such a path holds that same object.
C1_PathUniqueness ==
    LET paths == AdjustmentPaths
        there == {i \in 1 .. Len(objects) : objects[i].subdir \in paths}
    IN  /\ \A i \in there : \A j \in 1 .. Len(objects) :
              objects[i].subdir = objects[j].subdir => i = j
        /\ \A t \in TaskNames : \A k \in 1 .. Len(tasks[t].steps) :
              LET id == tasks[t].steps[k].step
              IN  id \in there =>
                      /\ objects[id].subdir \in DOMAIN steps
                      /\ steps[objects[id].subdir] = id

\* two tasks with one sshdir hold one forward step, after calls with
\* different iteration counts
C1_Witness ==
    /\ \E m, n \in SetupCalls :
          /\ log[m].task # log[n].task
          /\ IterationCount(m) # IterationCount(n)
    /\ \E id \in 1 .. Len(objects) :
          /\ objects[id].cls = "SshForward"
          /\ PositionsIn("b", id) # {}
          /\ PositionsIn("c", id) # {}

\* C2: with K >= 1 and a registry holding none of the adjustment paths the
\* call constructs exactly 2K steps, K forward and K adjust, and returns the
\* adjust step of iteration K-1; a later call with the same sshdir and K
\* constructs none and returns the same object.
C2_ConstructsTwoK ==
    \A n \in SetupCalls :
        (IterationCount(n) >= 1 /\ FreshRegistry(n)) =>
            LET K == IterationCount(n)
                last == AdjustPath(log[n].indir, K - 1)
            IN  /\ log[n].raised = ""
                /\ log[n].after - log[n].before = 2 * K
                /\ Cardinality({o \in Constructed(n) :
                                  objects[o].cls = "SshForward"}) = K
                /\ Cardinality({o \in Constructed(n) :
                                  objects[o].cls = "SshAdjustment"}) = K
                /\ log[n].result \in Constructed(n)
                /\ objects[log[n].result].subdir = last
                /\ objects[log[n].result].cls = "SshAdjustment"
                /\ \A m \in SetupCalls :
                      (m > n /\ log[m].indir = log[n].indir
                             /\ IterationCount(m) = K) =>
                          /\ log[m].raised = ""
                          /\ log[m].after = log[m].before
                          /\ log[m].result = log[n].result

\* a call with K = 2 on a fresh registry, then the same call again
C2_Witness ==
    /\ Len(log) >= 2
    /\ {1, 2} \subseteq SetupCalls
    /\ FreshRegistry(1)
    /\ IterationCount(1) = 2
    /\ IterationCount(2) = 2
    /\ log[1].indir = log[2].indir
    /\ log[2].result # None

\* C3: forward chaining.  A forward step constructed at iteration 0 has the
\* original initial state as init; one constructed at iteration i+1 has the
\* adjust step of iteration i that the task holds, built or reused, and
\* never the original initial state.
C3_ForwardChaining ==
    \A n \in SetupCalls : \A o \in Constructed(n) :
        objects[o].cls = "SshForward" =>
            \E i \in 0 .. MaxIterations :
                /\ objects[o].subdir = ForwardPath(log[n].indir, i)
                /\ IF i = 0
                   THEN objects[o].init = log[n].init
                   ELSE LET adj == AdjustPath(log[n].indir, i - 1)
                        IN  /\ adj \in DOMAIN steps
                            /\ objects[o].init = steps[adj]
                            /\ objects[o].init # log[n].init
                            /\ \E k \in PositionsIn(log[n].task, steps[adj]) :
                                  \E l \in PositionsIn(log[n].task, o) : k < l

\* a forward step of iteration 1 is built on an adjust step of iteration 0
\* that an earlier call had registered
C3_Witness ==
    \E n \in SetupCalls : \E o \in Constructed(n) :
        /\ objects[o].cls = "SshForward"
        /\ objects[o].subdir = ForwardPath(log[n].indir, 1)
        /\ objects[o].init # None
        /\ objects[o].init <= log[n].before
        /\ objects[objects[o].init].cls = "SshAdjustment"

\* C4: adjust wiring.  Whatever the registry holds at the call, an adjust
\* step constructed at iteration i has the original initial state as init
\* and, as forward, the forward step of iteration i that the task holds,
\* also when that forward step was reused from the registry.
C4_AdjustWiring ==
    \A n \in SetupCalls : \A o \in Constructed(n) :
        objects[o].cls = "SshAdjustment" =>
            \E i \in 0 .. MaxIterations :
                /\ objects[o].subdir = AdjustPath(log[n].indir, i)
                /\ objects[o].init = log[n].init
                /\ ForwardPath(log[n].indir, i) \in DOMAIN steps
                /\ objects[o].forward = steps[ForwardPath(log[n].indir, i)]
                /\ PositionsIn(log[n].task, objects[o].forward) # {}

\* C5: building the shared topography steps again for the same mesh type
\* and resolution constructs no step and returns the same step objects for
\* every experiment and key.
C5_PipelineIdempotent ==
    \A m, n \in 1 .. Len(builds) :
        (m < n /\ builds[m].mesh_type = builds[n].mesh_type
               /\ builds[m].resolution = builds[n].resolution) =>
            /\ builds[n].after = builds[n].before
            /\ \A e \in AllExperiments :
                  \A key \in dict_keys(StepsOf(builds[m], e)) :
                      dict_get(StepsOf(builds[n], e), key)
                          = dict_get(StepsOf(builds[m], e), key)

\* C6: within one build the base mesh, base map, base remap, cull-mesh and
\* culled map steps are each constructed once, at their own subdir, and all
\* eight experiments hold those objects under the same keys.
C6_SharedOnce ==
    \A n \in 1 .. Len(builds) :
        LET b == builds[n]
            made == (b.before + 1) .. b.after
        IN  \A key \in SharedKeys :
                LET id == dict_get(StepsOf(b, "ocean1"), key)
                IN  /\ id \in made
                    /\ objects[id].subdir = b.resdir \o "/" \o key
                    /\ Cardinality({o \in made :
                          objects[o].subdir = b.resdir \o "/" \o key}) = 1
                    /\ \A e \in AllExperiments :
                          dict_get(StepsOf(b, e), key) = id

\* a build returned step sets for all eight experiments
C6_Witness ==
    \E n \in 1 .. Len(builds) :
        /\ DOMAIN builds[n].shared = AllExperiments
        /\ builds[n].after - builds[n].before = 12
        /\ dict_get(StepsOf(builds[n], "drying"), "topo/cull_mesh") # None

\* C7: the step set returned for ocean0 is the same mapping object as the
\* one returned for ocean1, so they agree in every key and step.
C7_Ocean0IsOcean1 ==
    \A n \in 1 .. Len(builds) :
        /\ builds[n].shared["ocean0"] = builds[n].shared["ocean1"]
        /\ StepsOf(builds[n], "ocean0") = StepsOf(builds[n], "ocean1")

\* a build where ocean0 shares the mapping of ocean1 while inception, a
\* copy of it, does not
C7_Witness ==
    \E n \in 1 .. Len(builds) :
        /\ builds[n].shared["ocean0"] = builds[n].shared["ocean1"]
        /\ builds[n].shared["inception"] # builds[n].shared["ocean1"]
        /\ Len(StepsOf(builds[n], "ocean0")) = 7

\* C8: topo_final of ocean1..ocean4 is the culled remap step built for that
\* experiment, the object under topo/remap_culled; topo_final of inception,
\* wetting and drying is that experiment's scale step, the object under
\* topo/scale, and not the remap step.
C8_TopoFinal ==
    \A n \in 1 .. Len(builds) :
        LET b == builds[n]
        IN  /\ \A k \in 1 .. Len(RemapExperiments) :
                  LET e == RemapExperiments[k]
                      final == dict_get(StepsOf(b, e), "topo_final")
                  IN  /\ final # None
                      /\ final = dict_get(StepsOf(b, e), "topo/remap_culled")
                      /\ objects[final].cls = "TopoRemap"
                      /\ objects[final].experiment = e
                      /\ objects[final].subdir
                            = b.resdir \o "/topo/remap_culled/" \o e
            /\ \A k \in 1 .. Len(ScaleExperiments) :
                  LET e == ScaleExperiments[k]
                      final == dict_get(StepsOf(b, e), "topo_final")
                  IN  /\ final # None
                      /\ final = dict_get(StepsOf(b, e), "topo/scale")
                      /\ final # dict_get(StepsOf(b, e), "topo/remap_culled")
                      /\ objects[final].cls = "TopoScale"
                      /\ objects[final].experiment = e

\* a build where topo_final of ocean2 is a remap step and topo_final of
\* wetting a scale step
C8_Witness ==
    \E n \in 1 .. Len(builds) :
        /\ objects[dict_get(StepsOf(builds[n], "ocean2"), "topo_final")].cls
              = "TopoRemap"
        /\ objects[dict_get(StepsOf(builds[n], "wetting"), "topo_final")].cls
              = "TopoScale"

\* C9: no alias under which a step is added to a task, and no key of a
\* shared step set other than topo_final, equals the subdir of the step it
\* stands for.
C9_AliasIsNotPath ==
    /\ \A t \in TaskNames : \A k \in 1 .. Len(tasks[t].steps) :
          LET entry == tasks[t].steps[k]
          IN  entry.symlink # NoSymlink =>
                  entry.symlink[1] # objects[entry.step].subdir
    /\ \A n \in 1 .. Len(builds) : \A e \in AllExperiments :
          LET d == StepsOf(builds[n], e)
          IN  \A k \in 1 .. Len(d) :
                  d[k][1] # "topo_final" => d[k][1] # objects[d[k][2]].subdir

\* a task holds an adjust step under an alias, and a shared step set exists
C9_Witness ==
    /\ \E t \in TaskNames : \E k \in 1 .. Len(tasks[t].steps) :
          /\ tasks[t].steps[k].symlink = <<"ssh_adjustment/ssh_adjust_1">>
          /\ objects[tasks[t].steps[k].step].cls = "SshAdjustment"
    /\ \E n \in 1 .. Len(builds) :
          dict_get(StepsOf(builds[n], "wetting"), "topo/scale") # None

\* a step of the run is a call of setup_ssh_adjustment_steps with K = 0
ZeroIterationCall ==
    /\ Len(log') = Len(log) + 1
    /\ log'[Len(log')].op = "setup"
    /\ log'[Len(log')].iterations = <<0>>

\* C10: with iteration count 0 the call constructs no step and leaves the
\* step collection of every task and the registry as they were.
C10_ZeroIterations ==
    [][ZeroIterationCall =>
          /\ objects' = objects
          /\ steps' = steps
          /\ tasks' = tasks]_vars

\* a call with K = 0 was made, after a call that built steps
C10_Witness ==
    \E n \in SetupCalls :
        /\ n > 1
        /\ IterationCount(n) = 0
        /\ log[n].after = log[n].before
        /\ log[n - 1].after > log[n - 1].before

\* a step of the run is a call of setup_ssh_adjustment_steps on a
\* configuration without the option 'iterations'
MissingOptionCall ==
    /\ Len(log') = Len(log) + 1
    /\ log'[Len(log')].op = "setup"
    /\ log'[Len(log')].iterations = <<>>

\* C11: when the option 'iterations' is missing the call fails with an error
\* to its caller, once, before any forward or adjust step is constructed,
\* added to the task or registered.
C11_MissingOption ==
    [][MissingOptionCall =>
          /\ log'[Len(log')].raised = "NoOptionError"
          /\ log'[Len(log')].result = None
          /\ objects' = objects
          /\ steps' = steps
          /\ tasks' = tasks]_vars

\* a call failed on the missing option, after a call that built steps
C11_Witness ==
    \E n \in 2 .. Len(log) :
        /\ log[n].op = "setup"
        /\ log[n].iterations = <<>>
        /\ log[n].raised = "NoOptionError"
        /\ log[n].after = log[n].before
        /\ log[n - 1].after > log[n - 1].before

\* C12: no partial success.  Whenever setup_ssh_adjustment_steps returns
\* normally the task holds the whole chain of K forward and K adjust steps,
\* and every step the call built is wired by the chaining rules.
C12_NoPartialSuccess ==
    \A n \in SetupCalls :
        log[n].raised = "" =>
            /\ IterationCount(n) >= 1
            /\ \A i \in 0 .. IterationCount(n) - 1 :
                  LET fwd == ForwardPath(log[n].indir, i)
                      adj == AdjustPath(log[n].indir, i)
                  IN  /\ fwd \in DOMAIN steps
                      /\ adj \in DOMAIN steps
                      /\ PositionsIn(log[n].task, steps[fwd]) # {}
                      /\ PositionsIn(log[n].task, steps[adj]) # {}
                      /\ steps[fwd] \in Constructed(n) =>
                            objects[steps[fwd]].init =
                               IF i = 0 THEN log[n].init
                               ELSE steps[AdjustPath(log[n].indir, i - 1)]
                      /\ steps[adj] \in Constructed(n) =>
                            /\ objects[steps[adj]].init = log[n].init
                            /\ objects[steps[adj]].forward = steps[fwd]

\* C14: alias decision.  A task whose sshdir is its own subdir holds every
\* forward and adjust step with no alias; a task whose sshdir differs holds
\* the step of iteration i under 'ssh_adjustment/ssh_forward_<i>' or
\* 'ssh_adjustment/ssh_adjust_<i>', whether the step was built or reused.
C14_AliasDecision ==
    \A t \in TaskNames : \A k \in 1 .. Len(tasks[t].steps) :
        LET entry == tasks[t].steps[k]
            subdir == objects[entry.step].subdir
            owned == tasks[t].sshdir = tasks[t].subdir
        IN  \A i \in 0 .. MaxIterations :
                /\ subdir = ForwardPath(tasks[t].sshdir, i) =>
                      entry.symlink =
                         IF owned THEN NoSymlink
                         ELSE <<"ssh_adjustment/ssh_forward_" \o ToString(i)>>
                /\ subdir = AdjustPath(tasks[t].sshdir, i) =>
                      entry.symlink =
                         IF owned THEN NoSymlink
                         ELSE <<"ssh_adjustment/ssh_adjust_" \o ToString(i)>>

\* one task holds its forward step with no alias, another holds its own
\* under an alias
C14_Witness ==
    /\ \E k \in 1 .. Len(tasks["a"].steps) :
          /\ objects[tasks["a"].steps[k].step].cls = "SshForward"
          /\ tasks["a"].steps[k].symlink = NoSymlink
    /\ \E t \in {"b", "c"} : \E k \in 1 .. Len(tasks[t].steps) :
          /\ objects[tasks[t].steps[k].step].cls = "SshAdjustment"
          /\ tasks[t].steps[k].symlink = <<"ssh_adjustment/ssh_adjust_0">>

\* C17: pipeline wiring.  The base map consumes the base mesh, the base
\* remap the base map with experiment ocean1, the cull-mesh step the base
\* mesh and the base remap, the culled map the cull-mesh step, every culled
\* remap the culled map, every scale step the culled remap of ocean1; each
\* step consumes only steps constructed before it, so there is no cycle.
C17_PipelineWiring ==
    \A n \in 1 .. Len(builds) :
        LET b == builds[n]
            made == (b.before + 1) .. b.after
            at(key) == dict_get(StepsOf(b, "ocean1"), key)
        IN  /\ objects[at("topo/map_base")].mesh = at("base_mesh")
            /\ objects[at("topo/map_base")].topo = None
            /\ objects[at("topo/remap_base")].topo = at("topo/map_base")
            /\ objects[at("topo/remap_base")].experiment = "ocean1"
            /\ objects[at("topo/cull_mesh")].mesh = at("base_mesh")
            /\ objects[at("topo/cull_mesh")].topo = at("topo/remap_base")
            /\ objects[at("topo/map_culled")].mesh = at("topo/cull_mesh")
            /\ \A k \in 1 .. Len(RemapExperiments) :
                  LET id == dict_get(StepsOf(b, RemapExperiments[k]),
                                     "topo/remap_culled")
                  IN  /\ id \in made
                      /\ objects[id].topo = at("topo/map_culled")
            /\ \A k \in 1 .. Len(ScaleExperiments) :
                  LET id == dict_get(StepsOf(b, ScaleExperiments[k]),
                                     "topo/scale")
                  IN  /\ id \in made
                      /\ objects[id].topo = at("topo/remap_culled")
                      /\ objects[at("topo/remap_culled")].experiment = "ocean1"
            /\ \A o \in made :
                  \A r \in {objects[o].mesh, objects[o].topo,
                            objects[o].init, objects[o].forward} :
                      r = None \/ (r \in made /\ r < o)

\* a build whose scale step of drying consumes a culled remap that consumes
\* the culled map
C17_Witness ==
    \E n \in 1 .. Len(builds) :
        LET scale == dict_get(StepsOf(builds[n], "drying"), "topo/scale")
        IN  /\ scale # None
            /\ objects[scale].topo # None
            /\ objects[objects[scale].topo].cls = "TopoRemap"
            /\ objects[objects[objects[scale].topo].topo].name
                  = "topo_map_culled"

\* C18: no later mutation.  No step of the run changes an object that
\* exists, its inputs or its config binding, nor the step a registered
\* subdir stands for: a reused step keeps what its builder gave it.
C18_NoLaterMutation ==
    [][/\ Len(objects') >= Len(objects)
       /\ \A i \in 1 .. Len(objects) : objects'[i] = objects[i]
       /\ \A p \in DOMAIN steps :
             p \in DOMAIN steps' /\ steps'[p] = steps[p]]_vars

\* task c holds a forward step that the call of task b built, bound to the
\* configuration of task b
C18_Witness ==
    \E k \in 1 .. Len(tasks["c"].steps) :
        LET id == tasks["c"].steps[k].step
        IN  /\ objects[id].cls = "SshForward"
            /\ objects[id].config = "ice/b/ice_shelf.cfg"
            /\ PositionsIn("b", id) # {}

\* C20: clone isolation.  The step sets of ocean0..ocean4 hold no
\* topo/scale and their topo_final is their culled remap; inception,
\* wetting and drying hold three distinct scale steps at three distinct
\* subdirs, and their topo/remap_culled is the culled remap of ocean1.
C20_CloneIsolation ==
    \A n \in 1 .. Len(builds) :
        LET b == builds[n]
            scale(e) == dict_get(StepsOf(b, e), "topo/scale")
            variants == {ScaleExperiments[k] : k \in 1 .. Len(ScaleExperiments)}
        IN  /\ \A e \in AllExperiments \ variants :
                  /\ "topo/scale" \notin dict_keys(StepsOf(b, e))
                  /\ Len(StepsOf(b, e)) = 7
                  /\ dict_get(StepsOf(b, e), "topo_final")
                        = dict_get(StepsOf(b, e), "topo/remap_culled")
                  /\ objects[dict_get(StepsOf(b, e), "topo_final")].cls
                        = "TopoRemap"
                  /\ objects[dict_get(StepsOf(b, e), "topo_final")].experiment
                        = IF e = "ocean0" THEN "ocean1" ELSE e
            /\ \A e \in variants :
                  /\ scale(e) # None
                  /\ objects[scale(e)].experiment = e
                  /\ dict_get(StepsOf(b, e), "topo/remap_culled")
                        = dict_get(StepsOf(b, "ocean1"), "topo/remap_culled")
            /\ \A e1, e2 \in variants :
                  e1 # e2 =>
                      /\ scale(e1) # scale(e2)
                      /\ objects[scale(e1)].subdir # objects[scale(e2)].subdir

\* a build whose three variants hold three scale steps while ocean1 holds
\* none
C20_Witness ==
    \E n \in 1 .. Len(builds) :
        /\ Cardinality({dict_get(StepsOf(builds[n], e), "topo/scale") :
                           e \in {"inception", "wetting", "drying"}}) = 3
        /\ dict_get(StepsOf(builds[n], "ocean1"), "topo/scale") = None
        /\ dict_get(StepsOf(builds[n], "inception"), "topo/scale") # None

\* the constructions of an IsomipPlusTest
IsomipCalls == {n \in 1 .. Len(log) : log[n].op = "IsomipPlusTest"}

\* the step set a construction was given
GivenSteps(n) == StepsOf(builds[log[n].build], log[n].experiment)

IsLinkedItem(item) == item[1] # "topo_final"

\* the steps an object consumes
InputsOf(o) ==
    {objects[o].mesh, objects[o].init, objects[o].forward, objects[o].topo}
        \ {None}

\* C15: when an IsomipPlusTest adds its shared steps, every key of the
\* experiment's step set but 'topo_final' is added once, under that key as
\* alias and in the order of the mapping, and no task holds an alias
\* 'topo_final'.
C15_TopoFinalNotLinked ==
    /\ \A n \in IsomipCalls :
          LET linked == SelectSeq(GivenSteps(n), IsLinkedItem)
          IN  /\ log[n].task \in DOMAIN tasks
              /\ LET ts == tasks[log[n].task].steps
                 IN  /\ Len(ts) >= Len(linked)
                     /\ \A k \in 1 .. Len(linked) :
                           /\ ts[k].symlink = <<linked[k][1]>>
                           /\ ts[k].step = linked[k][2]
                     /\ \A k \in (Len(linked) + 1) .. Len(ts) :
                           \A j \in 1 .. Len(linked) :
                              ts[k].symlink # <<linked[j][1]>>
    /\ \A t \in DOMAIN tasks : \A k \in 1 .. Len(tasks[t].steps) :
          tasks[t].steps[k].symlink # <<"topo_final">>

\* the step collection of the task of construction n is there, holds the
\* shared steps, init and forcing, and every step in it comes after the
\* steps it consumes
OrderedCollection(n) ==
    /\ log[n].task \in DOMAIN tasks
    /\ LET ts == tasks[log[n].task].steps
       IN  /\ \A j \in 1 .. Len(GivenSteps(n)) :
                  \E k \in 1 .. Len(ts) : ts[k].step = GivenSteps(n)[j][2]
           /\ \E k \in 1 .. Len(ts) : objects[ts[k].step].cls = "Init"
           /\ \E k \in 1 .. Len(ts) : objects[ts[k].step].cls = "Forcing"
           /\ \A k \in 1 .. Len(ts) : \A r \in InputsOf(ts[k].step) :
                  \E j \in 1 .. (k - 1) : ts[j].step = r

AllOrdered == \A n \in IsomipCalls : OrderedCollection(n)

\* C16: in the step collection of every IsomipPlusTest each step comes
\* after every step whose output it consumes, and no step of the run
\* removes or reorders the steps a task holds already.
C16_ProducerBeforeConsumer ==
    [][/\ AllOrdered'
       /\ \A t \in DOMAIN tasks :
             /\ t \in DOMAIN tasks'
             /\ Len(tasks'[t].steps) >= Len(tasks[t].steps)
             /\ SubSeq(tasks'[t].steps, 1, Len(tasks[t].steps))
                   = tasks[t].steps]_vars

\* C19: constructing an IsomipPlusTest hands its Init step and the ISOMIP+
\* SshForward class to the loop; the call is accepted and every forward
\* step built for the task is an ISOMIP+ SshForward, whose cell count is
\* 45000 divided by the squared resolution, truncated.
C19_ForwardStepFactory ==
    \A n \in IsomipCalls :
        /\ log[n].raised = ""
        /\ log[n].task \in DOMAIN tasks
        /\ \A o \in Constructed(n) : \A i \in 0 .. MaxIterations :
              objects[o].subdir = ForwardPath(log[n].indir, i) =>
                  /\ objects[o].cls = "IsomipPlusSshForward"
                  /\ objects[objects[o].mesh].cls = "Init"
                  /\ LET count == compute_cell_count(objects[o].resolution)
                         square == objects[o].resolution * objects[o].resolution
                     IN  count * square <= 45000 /\ 45000 < (count + 1) * square

\* the step objects constructed for subdir p
ObjectsAt(p) == {o \in 1 .. Len(objects) : objects[o].subdir = p}

\* the concurrent calls that hold the registered step of subdir p
HoldersOf(p) ==
    {t \in DOMAIN threads :
        /\ registered(steps, p)
        /\ \E n \in 1 .. Len(tasks[t].steps) :
              tasks[t].steps[n].step = steps[p]}

\* C13: when the lookup-construct-register sequence of a path is serialized,
\* no interleaving of the concurrent calls of two tasks with one sshdir
\* constructs two step objects for that path.
C13_SerializedNoDuplicate ==
    \A p \in guarded : Cardinality(ObjectsAt(p)) <= 1

\* C13 happens: with no serialization of one path, two distinct objects were
\* constructed for it, while both calls came to hold the one step of a
\* serialized path
C13_Witness ==
    /\ \E q \in SshPaths("ice/ssh") \ guarded : Cardinality(ObjectsAt(q)) = 2
    /\ \E p \in guarded :
          /\ Cardinality(ObjectsAt(p)) = 1
          /\ HoldersOf(p) = RaceTasks

====
